---- MODULE Spec2Model ----
(***************************************************************************)
(* smtp2http: an SMTP listener hands every received message to             *)
(* CustomMessageHandler.handle_message, which spawns one asyncio task per  *)
(* message (async_handle_message).  The task checks the sender, decodes    *)
(* subject and body, classifies the recipients and forwards the message to *)
(* the webhook of every recipient found in EMAIL_ENDPOINTS.                *)
(*                                                                         *)
(* Strings are sequences of character codes, byte strings are sequences of *)
(* byte values, so that lower-casing and charset decoding are computed.    *)
(***************************************************************************)
EXTENDS Integers, Sequences, FiniteSets, TLC

\* Number of messages the listener hands to the handler in one behaviour.
MaxTasks == 2

None == "None"

(***************************************************************************)
(* Character strings                                                       *)
(***************************************************************************)

\* str.lower() on one character code (ASCII letters).
LowerChar(c) == IF c \in 65..90 THEN c + 32 ELSE c

\* str.lower()
Lower(s) == [i \in 1..Len(s) |-> LowerChar(s[i])]

\* "k@x", "K@X", "j@x", "o@x": recipient addresses.
AddrK == <<107, 64, 120>>
AddrKUpper == <<75, 64, 88>>
AddrJ == <<106, 64, 120>>
AddrO == <<111, 64, 120>>
\* "a@x", "e@x": sender addresses.
AddrAllowed == <<97, 64, 120>>
AddrEvil == <<101, 64, 120>>

\* ', '.join(rcpttos)
RECURSIVE Join(_)
Join(l) ==
    IF l = <<>> THEN <<>>
    ELSE IF Len(l) = 1 THEN l[1]
    ELSE l[1] \o <<44, 32>> \o Join(Tail(l))

(***************************************************************************)
(* Charset decoding: bytes.decode(charset) and str(bytes, charset)         *)
(***************************************************************************)

Ok(v) == [ok |-> TRUE, val |-> v, exc |-> None]
Raise(e) == [ok |-> FALSE, val |-> <<>>, exc |-> e]

\* UTF-8 decoding of one- and two-byte sequences (the payloads of Messages
\* hold no lead byte of a longer sequence).
RECURSIVE Utf8Decode(_)
Utf8Decode(b) ==
    IF b = <<>> THEN Ok(<<>>)
    ELSE IF b[1] < 128 THEN
        LET rest == Utf8Decode(Tail(b))
        IN  IF rest.ok THEN Ok(<<b[1]>> \o rest.val) ELSE rest
    ELSE IF b[1] \in 194..223 /\ Len(b) >= 2 /\ b[2] \in 128..191 THEN
        LET rest == Utf8Decode(Tail(Tail(b)))
        IN  IF rest.ok THEN Ok(<<(b[1] - 192) * 64 + (b[2] - 128)>> \o rest.val)
            ELSE rest
    ELSE Raise("UnicodeDecodeError")

\* bytes.decode(charset): the codec is looked up first, then applied.
Decode(b, charset) ==
    IF charset = "utf-8" THEN Utf8Decode(b)
    ELSE IF charset = "latin-1" THEN Ok(b)
    ELSE Raise("LookupError")

(***************************************************************************)
(* Configuration (module level, loaded once at import)                     *)
(***************************************************************************)

\* json.load(f) of the configuration file: the keys of "email_endpoints"
\* are kept as written.  ConfigLower is the README's form, ConfigMixed writes
\* one key with capitals.
ConfigLower ==
    [email_endpoints |-> (AddrK :> "https://e1" @@ AddrJ :> "https://e2"),
     allowed_senders |-> {AddrAllowed}]
ConfigMixed ==
    [email_endpoints |-> (AddrKUpper :> "https://e1" @@ AddrJ :> "https://e2"),
     allowed_senders |-> {AddrAllowed}]
Configs == {ConfigLower, ConfigMixed}

(***************************************************************************)
(* Inbound messages (email.message.Message as aiosmtpd parses it)          *)
(***************************************************************************)

\* message['to']: None when the header is absent, a str, or, as the handler
\* allows for, a list of str.
ToNone == [tag |-> "None", v |-> <<>>]
ToStr(r) == [tag |-> "str", v |-> <<r>>]
ToList(l) == [tag |-> "list", v |-> l]
ToFields ==
    {ToNone, ToStr(AddrK), ToList(<<AddrO>>), ToList(<<AddrKUpper, AddrO>>),
     ToList(<<AddrJ, AddrK>>)}

\* The Subject header: absent, a plain str without encoded words, or a
\* sequence of RFC 2047 encoded words (bytes, charset-or-None) followed by
\* unencoded text (bytes, None).
SubjectMissing == [tag |-> "missing", text |-> <<>>, words |-> <<>>]
SubjectPlain == [tag |-> "plain", text |-> <<104, 105>>, words |-> <<>>]
SubjectEncoded ==
    [tag |-> "encoded", text |-> <<>>,
     words |-> <<[data |-> <<195, 169>>, charset |-> "latin-1"],
                 [data |-> <<195, 169>>, charset |-> "utf-8"],
                 [data |-> <<104>>, charset |-> None]>>]
Subjects == {SubjectMissing, SubjectPlain, SubjectEncoded}

\* Body: the parts in original order; a non-multipart message is its own
\* single part.
Part(ctype, charset, payload) ==
    [ctype |-> ctype, charset |-> charset, payload |-> payload]
BodyPlain ==
    [multipart |-> FALSE, parts |-> <<Part("text/plain", None, <<104, 195, 169>>)>>]
BodyPlainBad ==
    [multipart |-> FALSE, parts |-> <<Part("text/plain", None, <<104, 195>>)>>]
BodyAlternative ==
    [multipart |-> TRUE,
     parts |-> <<Part("text/html", "latin-1", <<60, 233, 62>>),
                 Part("text/plain", None, <<104>>)>>]
BodyNoText ==
    [multipart |-> TRUE, parts |-> <<Part("image/png", None, <<137>>)>>]
Bodies == {BodyPlain, BodyPlainBad, BodyAlternative, BodyNoText}

\* The message handed to handle_message: the From header (message['from']),
\* the To header, the Subject header and the body as parsed from the DATA of
\* the transaction, and the X-MailFrom header the SMTP layer adds, which holds
\* the envelope sender (MAIL FROM) of the transaction.
Messages ==
    [from : {AddrAllowed, AddrEvil}, x_mailfrom : {AddrAllowed, AddrEvil},
     to : ToFields, subject : Subjects, body : Bodies]

(***************************************************************************)
(* Pure steps of async_handle_message                                      *)
(***************************************************************************)

\* "No subject"
NoSubject == <<78, 111, 32, 115, 117, 98, 106, 101, 99, 116>>

\* message.get('subject', 'No subject'): the header as a str.
GetSubject(message) ==
    IF message.subject.tag = "missing"
    THEN [tag |-> "plain", text |-> NoSubject, words |-> <<>>]
    ELSE message.subject

\* email.header.decode_header: a header without encoded words comes back as
\* one (str, None) pair, a header with encoded words as (bytes, charset) pairs.
decode_header(header) ==
    IF header.tag = "plain"
    THEN <<[data |-> header.text, isbytes |-> FALSE, charset |-> None]>>
    ELSE [i \in 1..Len(header.words) |->
            [data |-> header.words[i].data, isbytes |-> TRUE,
             charset |-> header.words[i].charset]]

\* str(t[0], t[1] or 'utf-8'): decoding a str raises TypeError.
StrOf(t) ==
    IF ~t.isbytes THEN Raise("TypeError")
    ELSE Decode(t.data, IF t.charset = None THEN "utf-8" ELSE t.charset)

\* ''.join([str(t[0], t[1] or 'utf-8') for t in pairs])
RECURSIVE JoinDecoded(_)
JoinDecoded(pairs) ==
    IF pairs = <<>> THEN Ok(<<>>)
    ELSE LET first == StrOf(Head(pairs))
         IN  IF ~first.ok THEN first
             ELSE LET rest == JoinDecoded(Tail(pairs))
                  IN  IF rest.ok THEN Ok(first.val \o rest.val) ELSE rest

\* Line 124 for each Subject header a message can have.
DecodedSubjects ==
    [subject \in Subjects |->
        JoinDecoded(decode_header(GetSubject([subject |-> subject])))]

DecodedSubject(message) == DecodedSubjects[message.subject]

\* part.get_payload(decode=True).decode(part.get_content_charset('utf-8'))
DecodePart(part) ==
    Decode(part.payload, IF part.charset = None THEN "utf-8" ELSE part.charset)

\* message.walk(): the multipart container itself, then its parts in order.
Walk(body) == <<Part("multipart/alternative", None, <<>>)>> \o body.parts

IsText(part) == part.ctype \in {"text/plain", "text/html"}

\* Variant of ExtractContent that prefers a text/plain part to a text/html
\* part wherever they stand.
ExtractContentPreferPlain(message) ==
    LET body == message.body
        walk == Walk(body)
        plain == {i \in 1..Len(walk) : walk[i].ctype = "text/plain"}
        hits == IF plain # {} THEN plain
                ELSE {i \in 1..Len(walk) : IsText(walk[i])}
    IN  IF body.multipart
        THEN IF hits = {} THEN Ok(<<>>)
             ELSE DecodePart(walk[CHOOSE i \in hits : \A j \in hits : i <= j])
        ELSE DecodePart(body.parts[1])

\* Lines 127-137: the content of the message.
ExtractContent(message) ==
    LET body == message.body
        walk == Walk(body)
        hits == {i \in 1..Len(walk) : IsText(walk[i])}
    IN  IF body.multipart
        THEN IF hits = {} THEN Ok(<<>>)
             ELSE DecodePart(walk[CHOOSE i \in hits : \A j \in hits : i <= j])
        ELSE DecodePart(body.parts[1])

\* rcpttos = [rcpttos] if isinstance(rcpttos, str) else rcpttos; a str is
\* wrapped into a one-element list, a list is kept (None is kept too and has
\* no elements to show here: iterating it raises, see StartTask).
Normalize(to) == IF to.tag = "str" THEN <<to.v[1]>> ELSE to.v

(***************************************************************************)
(* State                                                                   *)
(***************************************************************************)

VARIABLES
    EMAIL_ENDPOINTS,  \* dict: configured address -> webhook URL
    ALLOWED_SENDERS,  \* the allowed sender addresses
    tasks,            \* the asyncio tasks created by handle_message, in order
    logger_known,     \* lines appended to known_emails.log
    logger_unknown,   \* lines appended to unknown_emails.log
    posts,            \* the requests.post calls handed to the executor, each
                      \* with its result once the worker thread has it
    returned          \* what handle_message returned to the listener, per call

vars ==
    <<EMAIL_ENDPOINTS, ALLOWED_SENDERS, tasks, logger_known, logger_unknown,
      posts, returned>>

TaskIds == 1..Len(tasks)

\* The result of an executor call that is still running.
Pending == [state |-> "pending", status |-> 0]

\* Outcomes of requests.post in the worker thread: a response with a status
\* code, or a requests.RequestException (connection, timeout, TLS, ...).
StatusCodes == {200, 500}
Outcomes ==
    {[state |-> "response", status |-> c] : c \in StatusCodes}
        \cup {[state |-> "exception", status |-> 0]}

\* asyncio.create_task(self.async_handle_message(message)): a task that has
\* not run yet.
NewTask(message) ==
    [message |-> message, pc |-> "scheduled", rcpttos |-> <<>>,
     decoded_subject |-> <<>>, content |-> <<>>, idx |-> 0, call |-> 0,
     exc |-> None]

(***************************************************************************)
(* Recipient routing                                                       *)
(***************************************************************************)

\* Line 139-140: any(recipient.lower() in (address.lower() for address in
\* EMAIL_ENDPOINTS) for recipient in rcpttos)
is_known_recipient(rcpttos) ==
    \E i \in 1..Len(rcpttos) :
        Lower(rcpttos[i]) \in {Lower(address) : address \in DOMAIN EMAIL_ENDPOINTS}

\* Line 146: recipient.lower() in EMAIL_ENDPOINTS
InEndpoints(recipient) == Lower(recipient) \in DOMAIN EMAIL_ENDPOINTS

\* Line 159: EMAIL_ENDPOINTS.get(recipient.lower())
EndpointOf(recipient) ==
    IF Lower(recipient) \in DOMAIN EMAIL_ENDPOINTS
    THEN EMAIL_ENDPOINTS[Lower(recipient)]
    ELSE None

\* Line 160: if endpoint
Truthy(endpoint) == endpoint \notin {None, ""}

\* Variant of NextForward without the tests of lines 146 and 160: every
\* recipient is forwarded.
NextForwardAll(rcpttos, i) == IF i <= Len(rcpttos) THEN i ELSE 0

\* The for loop of lines 145-147 from position i on: the position of the
\* next recipient for which a POST is handed to the executor, 0 if none.
NextForward(rcpttos, i) ==
    LET hits == {j \in i..Len(rcpttos) :
                    InEndpoints(rcpttos[j]) /\ Truthy(EndpointOf(rcpttos[j]))}
    IN  IF hits = {} THEN 0 ELSE CHOOSE j \in hits : \A k \in hits : j <= k

\* Variant of Payload that reports the recipient in the normalised form used
\* for the lookup.
PayloadLowered(recipient, decoded_subject, content) ==
    [from |-> Lower(recipient), subject |-> decoded_subject, content |-> content]

\* Lines 153-157
Payload(recipient, decoded_subject, content) ==
    [from |-> recipient, subject |-> decoded_subject, content |-> content]

(***************************************************************************)
(* Log lines (the field task is a ghost naming the task that wrote it)     *)
(***************************************************************************)

\* Line 118
RejectedEntry(t, mailfrom) ==
    [task |-> t, kind |-> "rejected", level |-> "INFO", from |-> mailfrom]

\* Line 141
SummaryEntry(t, mailfrom, rcpttos, decoded_subject, content) ==
    [task |-> t, kind |-> "summary", level |-> "INFO", from |-> mailfrom,
     to |-> Join(rcpttos), subject |-> decoded_subject, size |-> Len(content)]

\* Line 164
ForwardedEntry(t, endpoint, status) ==
    [task |-> t, kind |-> "forwarded", level |-> "INFO", endpoint |-> endpoint,
     status |-> status]

\* Line 166
ErrorEntry(t, endpoint) ==
    [task |-> t, kind |-> "error", level |-> "ERROR", endpoint |-> endpoint]

(***************************************************************************)
(* Operations                                                              *)
(***************************************************************************)

Init ==
    /\ \E config \in Configs :
        /\ EMAIL_ENDPOINTS = config.email_endpoints
        /\ ALLOWED_SENDERS = config.allowed_senders
    /\ tasks = <<>>
    /\ logger_known = <<>>
    /\ logger_unknown = <<>>
    /\ posts = <<>>
    /\ returned = <<>>

\* Variant of handle_message that checks the sender before it returns and
\* answers the listener accordingly.
handle_message_inline(message) ==
    /\ Len(tasks) < MaxTasks
    /\ IF message.from \in ALLOWED_SENDERS
       THEN /\ tasks' = Append(tasks, NewTask(message))
            /\ returned' = Append(returned, None)
            /\ UNCHANGED logger_unknown
       ELSE /\ tasks' = Append(tasks, [NewTask(message) EXCEPT !.pc = "done"])
            /\ returned' = Append(returned, "550 rejected")
            /\ logger_unknown' =
                    Append(logger_unknown,
                           [task |-> Len(tasks) + 1, kind |-> "rejected",
                            level |-> "INFO", from |-> message.from])
    /\ UNCHANGED <<EMAIL_ENDPOINTS, ALLOWED_SENDERS, logger_known, posts>>

\* CustomMessageHandler.handle_message: create the task and return.
handle_message(message) ==
    /\ Len(tasks) < MaxTasks
    /\ tasks' = Append(tasks, NewTask(message))
    /\ returned' = Append(returned, None)
    /\ UNCHANGED <<EMAIL_ENDPOINTS, ALLOWED_SENDERS, logger_known,
                   logger_unknown, posts>>

\* Variant of Authorized without the allow-list test.
AuthorizedAnyone(mailfrom) == TRUE

\* Line 117: mailfrom in ALLOWED_SENDERS
Authorized(mailfrom) == mailfrom \in ALLOWED_SENDERS

\* The task ends: it returned, or an exception left async_handle_message.
Finish(tk) ==
    [tk EXCEPT !.pc = "done", !.idx = Len(tk.rcpttos) + 1, !.call = 0]
Raised(tk, e) == [tk EXCEPT !.pc = "raised", !.exc = e]

\* forward_to_webhook up to its await: build the payload, look the endpoint
\* up and hand requests.post to the executor.
Submit(t, tk, j) ==
    [task |-> t, rcpt |-> j, endpoint |-> EndpointOf(tk.rcpttos[j]),
     json |-> Payload(tk.rcpttos[j], tk.decoded_subject, tk.content),
     result |-> Pending]

\* Lines 145-147 from position i of rcpttos on, up to the next await (lines
\* 159-163) or the end of the loop.
ForwardLoop(t, tk, i) ==
    LET j == NextForward(tk.rcpttos, i)
    IN  IF j = 0
        THEN /\ tasks' = [tasks EXCEPT ![t] = Finish(tk)]
             /\ posts' = posts
        ELSE /\ tasks' = [tasks EXCEPT ![t] =
                            [tk EXCEPT !.pc = "awaiting", !.idx = j,
                                       !.call = Len(posts) + 1]]
             /\ posts' = Append(posts, Submit(t, tk, j))

\* Lines 143-149: the sink of the summary line.
SummarySink(rcpttos) == IF is_known_recipient(rcpttos) THEN "known" ELSE "unknown"

\* Variant of Ready in which a message's task starts only when the tasks of
\* the messages before it have ended.
ReadyAfterEarlier(t) ==
    /\ tasks[t].pc = "scheduled"
    /\ \A u \in 1..(t - 1) : tasks[u].pc \in {"done", "raised"}

\* asyncio.create_task (line 110) put the task on the loop's ready queue and
\* it is the first there that has not started yet; tasks that are suspended
\* at their await do not hold it back.
Ready(t) ==
    /\ tasks[t].pc = "scheduled"
    /\ \A u \in 1..(t - 1) : tasks[u].pc # "scheduled"

\* Variant of StartTask that gives the loop back after the sender check: an
\* allowed message's task is suspended there, before decoding and logging.
StartTaskYielding(t) ==
    /\ Ready(t)
    /\ LET tk == tasks[t]
           mailfrom == tk.message.from
       IN  IF ~Authorized(mailfrom)
           THEN /\ logger_unknown' = Append(logger_unknown, RejectedEntry(t, mailfrom))
                /\ tasks' = [tasks EXCEPT ![t] = Finish(tk)]
           ELSE /\ tasks' = [tasks EXCEPT ![t] = [tk EXCEPT !.pc = "checked"]]
                /\ UNCHANGED logger_unknown
    /\ UNCHANGED <<EMAIL_ENDPOINTS, ALLOWED_SENDERS, logger_known, posts, returned>>

\* The event loop runs a new task from line 114 to its first await, its
\* return or the exception that ends it.  Ready tasks start in creation order.
StartTask(t) ==
    /\ Ready(t)
    /\ LET tk == tasks[t]
           message == tk.message
           mailfrom == message.from
           subject == DecodedSubject(message)
           body == ExtractContent(message)
       IN  IF ~Authorized(mailfrom)
           THEN /\ logger_unknown' = Append(logger_unknown, RejectedEntry(t, mailfrom))
                /\ tasks' = [tasks EXCEPT ![t] = Finish(tk)]
                /\ UNCHANGED <<logger_known, posts>>
           ELSE IF ~subject.ok
           THEN /\ tasks' = [tasks EXCEPT ![t] = Raised(tk, subject.exc)]
                /\ UNCHANGED <<logger_known, logger_unknown, posts>>
           ELSE IF ~body.ok
           THEN /\ tasks' = [tasks EXCEPT ![t] = Raised(tk, body.exc)]
                /\ UNCHANGED <<logger_known, logger_unknown, posts>>
           ELSE IF message.to.tag = "None"
           THEN \* line 139: iterating None
                /\ tasks' = [tasks EXCEPT ![t] = Raised(tk, "TypeError")]
                /\ UNCHANGED <<logger_known, logger_unknown, posts>>
           ELSE LET rcpttos == Normalize(message.to)
                    decoded == [tk EXCEPT !.rcpttos = rcpttos,
                                          !.decoded_subject = subject.val,
                                          !.content = body.val]
                    log_entry == SummaryEntry(t, mailfrom, rcpttos, subject.val,
                                              body.val)
                IN  IF SummarySink(rcpttos) = "known"
                    THEN /\ logger_known' = Append(logger_known, log_entry)
                         /\ ForwardLoop(t, decoded, 1)
                         /\ UNCHANGED logger_unknown
                    ELSE /\ logger_unknown' = Append(logger_unknown, log_entry)
                         /\ tasks' = [tasks EXCEPT ![t] = Finish(decoded)]
                         /\ UNCHANGED <<logger_known, posts>>
    /\ UNCHANGED <<EMAIL_ENDPOINTS, ALLOWED_SENDERS, returned>>

\* The worker thread's requests.post returns or raises.
PostCompletes(t, outcome) ==
    /\ tasks[t].pc = "awaiting"
    /\ posts[tasks[t].call].result = Pending
    /\ posts' = [posts EXCEPT ![tasks[t].call].result = outcome]
    /\ UNCHANGED <<EMAIL_ENDPOINTS, ALLOWED_SENDERS, tasks, logger_known,
                   logger_unknown, returned>>

\* Lines 164-166: the line written for the outcome of the awaited POST.
OutcomeEntry(t, endpoint, outcome) ==
    IF outcome.state = "response"
    THEN ForwardedEntry(t, endpoint, outcome.status)
    ELSE ErrorEntry(t, endpoint)

\* Where the for loop goes on after the POST for position idx.
AfterPost(idx) == idx + 1

\* Variant of ResumeTask in which only a response wakes the task: a
\* requests.post that raised leaves the task suspended.
ResumeTaskOnResponse(t) ==
    /\ tasks[t].pc = "awaiting"
    /\ posts[tasks[t].call].result \notin {Pending}
    /\ posts[tasks[t].call].result.state = "response"
    /\ LET tk == tasks[t]
           endpoint == EndpointOf(tk.rcpttos[tk.idx])
       IN  /\ logger_known' =
                Append(logger_known, OutcomeEntry(t, endpoint, posts[tk.call].result))
           /\ ForwardLoop(t, tk, AfterPost(tk.idx))
    /\ UNCHANGED <<EMAIL_ENDPOINTS, ALLOWED_SENDERS, logger_unknown, returned>>

\* Variant of ResumeTask that goes on without waiting for the result of the
\* POST it handed to the executor.
ResumeTaskEager(t) ==
    /\ tasks[t].pc = "awaiting"
    /\ LET tk == tasks[t]
           endpoint == EndpointOf(tk.rcpttos[tk.idx])
       IN  /\ logger_known' =
                Append(logger_known, OutcomeEntry(t, endpoint, posts[tk.call].result))
           /\ ForwardLoop(t, tk, AfterPost(tk.idx))
    /\ UNCHANGED <<EMAIL_ENDPOINTS, ALLOWED_SENDERS, logger_unknown, returned>>

\* The event loop resumes the task after its await: lines 164-166, then the
\* for loop goes on to the next await or to the end.
ResumeTask(t) ==
    /\ tasks[t].pc = "awaiting"
    /\ posts[tasks[t].call].result # Pending
    /\ LET tk == tasks[t]
           endpoint == EndpointOf(tk.rcpttos[tk.idx])
       IN  /\ logger_known' =
                Append(logger_known, OutcomeEntry(t, endpoint, posts[tk.call].result))
           /\ ForwardLoop(t, tk, AfterPost(tk.idx))
    /\ UNCHANGED <<EMAIL_ENDPOINTS, ALLOWED_SENDERS, logger_unknown, returned>>

Next ==
    \/ \E message \in Messages : handle_message(message)
    \/ \E t \in TaskIds : StartTask(t)
    \/ \E t \in TaskIds : \E outcome \in Outcomes : PostCompletes(t, outcome)
    \/ \E t \in TaskIds : ResumeTask(t)

Spec == Init /\ [][Next]_vars

(***************************************************************************)
(* Vocabulary of the properties                                            *)
(***************************************************************************)

\* The event loop runs every ready task (it starts the tasks it was given and
\* resumes a task whose future has a result), and, as the termination claim
\* assumes, every requests.post on a worker thread returns or raises.
Fairness ==
    \A t \in 1..MaxTasks :
        /\ WF_vars(t \in TaskIds /\ StartTask(t))
        /\ WF_vars(t \in TaskIds /\ ResumeTask(t))
        /\ WF_vars(t \in TaskIds /\ \E outcome \in Outcomes : PostCompletes(t, outcome))

\* The same program fed with fewer kinds of message: envelope sender and From
\* header agree, the body is the text/plain one, the subject has encoded
\* words or none, the To field is any of ToFields.
FairMessages ==
    {message \in Messages :
        /\ message.x_mailfrom = message.from
        /\ message.body = BodyPlain
        /\ message.subject \in {SubjectPlain, SubjectEncoded}}

FairNext ==
    \/ \E message \in FairMessages : handle_message(message)
    \/ \E t \in TaskIds : StartTask(t)
    \/ \E t \in TaskIds : \E outcome \in Outcomes : PostCompletes(t, outcome)
    \/ \E t \in TaskIds : ResumeTask(t)

FairSpec == Init /\ [][FairNext]_vars /\ Fairness

\* The recipients of a message, in order (none when the field is absent).
Recipients(message) ==
    IF message.to.tag = "None" THEN <<>>
    ELSE IF message.to.tag = "str" THEN <<message.to.v[1]>>
    ELSE message.to.v

\* A recipient matches a mapping key when both are equal without regard to
\* letter case; MappedEndpoint is the endpoint of the key it matches.
MatchingKeys(r) == {a \in DOMAIN EMAIL_ENDPOINTS : Lower(a) = Lower(r)}
Matches(r) == MatchingKeys(r) # {}
MappedEndpoint(r) == EMAIL_ENDPOINTS[CHOOSE a \in MatchingKeys(r) : TRUE]
MatchingPositions(message) ==
    {i \in 1..Len(Recipients(message)) : Matches(Recipients(message)[i])}

SenderAllowed(message) == message.from \in ALLOWED_SENDERS

\* What a task has written and sent so far.
KnownOf(t) == {i \in 1..Len(logger_known) : logger_known[i].task = t}
UnknownOf(t) == {i \in 1..Len(logger_unknown) : logger_unknown[i].task = t}
PostsOf(t) == {i \in 1..Len(posts) : posts[i].task = t}
KnownSummaries(t) == {i \in KnownOf(t) : logger_known[i].kind = "summary"}
UnknownSummaries(t) == {i \in UnknownOf(t) : logger_unknown[i].kind = "summary"}
Ended(t) == tasks[t].pc \in {"done", "raised"}

(***************************************************************************)
(* Properties                                                              *)
(***************************************************************************)

C2_OneKnownOneUnknown ==
    \A t \in TaskIds :
        LET message == tasks[t].message
            r == Recipients(message)
        IN  ( /\ SenderAllowed(message)
              /\ Len(r) = 2
              /\ Cardinality(MatchingPositions(message)) = 1 ) =>
                /\ UnknownOf(t) = {}
                /\ \A i \in PostsOf(t) : \E j \in MatchingPositions(message) :
                    /\ posts[i].json.from = r[j]
                    /\ posts[i].endpoint = MappedEndpoint(r[j])
                /\ Cardinality(PostsOf(t)) <= 1
                /\ Ended(t) =>
                    /\ Cardinality(PostsOf(t)) = 1
                    /\ Cardinality(KnownSummaries(t)) = 1

\* C3: a message from an allowed sender whose subject and body decode
\* without error has, once its task has run, exactly one summary line; the
\* line lists all original recipients and is in the known sink if and only if
\* at least one recipient matches a mapping key without regard to case.
C3_OneSummaryByClassification ==
    \A t \in TaskIds :
        LET message == tasks[t].message
            summaries ==
                {logger_known[i] : i \in KnownSummaries(t)}
                    \cup {logger_unknown[i] : i \in UnknownSummaries(t)}
        IN  ( /\ SenderAllowed(message)
              /\ DecodedSubject(message).ok
              /\ ExtractContent(message).ok
              /\ tasks[t].pc # "scheduled" ) =>
                /\ Cardinality(KnownSummaries(t)) + Cardinality(UnknownSummaries(t)) = 1
                /\ \A e \in summaries : e.to = Join(Recipients(message))
                /\ KnownSummaries(t) # {} <=> MatchingPositions(message) # {}

\* C4: every POST is made for a recipient of its message that matches a
\* mapping key, and goes to the endpoint of that key; a message none of whose
\* recipients matches has no POST.
C4_PostOnlyForMatching ==
    /\ \A i \in 1..Len(posts) :
        LET r == Recipients(tasks[posts[i].task].message)
        IN  \E j \in 1..Len(r) :
                /\ r[j] = posts[i].json.from
                /\ Matches(r[j])
                /\ posts[i].endpoint = MappedEndpoint(r[j])
    /\ \A t \in TaskIds :
        MatchingPositions(tasks[t].message) = {} => PostsOf(t) = {}

C4_Witness ==
    \E t, u \in TaskIds :
        /\ tasks[t].pc = "done"
        /\ Cardinality(PostsOf(t)) = 1
        /\ \E j \in 1..Len(Recipients(tasks[t].message)) :
            ~Matches(Recipients(tasks[t].message)[j])
        /\ tasks[u].pc = "done"
        /\ UnknownSummaries(u) # {}
        /\ PostsOf(u) = {}

\* C5: in a message logged as known, every recipient that matches a mapping
\* key without regard to case has a POST to that key's endpoint by the time
\* the task is done.
C5_ForwardCaseInsensitive ==
    \A t \in TaskIds :
        LET r == Recipients(tasks[t].message)
        IN  (tasks[t].pc = "done" /\ KnownSummaries(t) # {}) =>
                \A j \in MatchingPositions(tasks[t].message) :
                    \E i \in PostsOf(t) :
                        /\ posts[i].json.from = r[j]
                        /\ posts[i].endpoint = MappedEndpoint(r[j])

\* C6: a failure raised inside a task is caught at the task's outer boundary
\* and turned into a line in one of the sinks: no task ends with an exception
\* that left async_handle_message without a line recording it.
C6_FailuresCaughtAndLogged ==
    \A t \in TaskIds :
        tasks[t].pc = "raised" =>
            \/ \E i \in KnownOf(t) : logger_known[i].kind = "error"
            \/ \E i \in UnknownOf(t) : logger_unknown[i].kind = "error"

\* The POSTs of task t that failed and whose failure the task has seen.
FailedSeen(t) ==
    {i \in PostsOf(t) :
        /\ posts[i].result.state = "exception"
        /\ (tasks[t].pc = "awaiting" => tasks[t].call # i)}

\* C7: a POST that fails with a transport failure does not end the task with
\* an exception; the failure is logged to the known sink once the task has
\* seen it, and when the task is done every later recipient that matches a
\* mapping key has been attempted.
C7_ForwardFailureContained ==
    \A t \in TaskIds :
        /\ (\E i \in PostsOf(t) : posts[i].result.state = "exception") =>
                tasks[t].pc # "raised"
        /\ \A i \in FailedSeen(t) :
            /\ \E k \in KnownOf(t) :
                /\ logger_known[k].kind = "error"
                /\ logger_known[k].endpoint = posts[i].endpoint
            /\ tasks[t].pc = "done" =>
                \A j \in MatchingPositions(tasks[t].message) :
                    j > posts[i].rcpt => \E n \in PostsOf(t) : posts[n].rcpt = j
        /\ Cardinality({k \in KnownOf(t) : logger_known[k].kind = "error"})
                = Cardinality(FailedSeen(t))

\* C8: when a task has ended, the number of its POSTs is the number of the
\* message's recipient entries that match the mapping (none for a message of
\* an unauthorized sender), and no recipient entry is ever posted twice.
C8_NoRetries ==
    \A t \in TaskIds :
        /\ \A i, n \in PostsOf(t) : i # n => posts[i].rcpt # posts[n].rcpt
        /\ Ended(t) =>
            Cardinality(PostsOf(t)) =
                IF SenderAllowed(tasks[t].message)
                THEN Cardinality(MatchingPositions(tasks[t].message))
                ELSE 0

\* C9: the step in which handle_message takes a message only creates the
\* task: the new task has not run, no line is written and no POST is made in
\* that step, and what is returned to the listener is the same for every
\* message.
C9_HandleReturnsImmediately ==
    [][Len(tasks') > Len(tasks) =>
        /\ Len(tasks') = Len(tasks) + 1
        /\ tasks'[Len(tasks')].pc = "scheduled"
        /\ SubSeq(tasks', 1, Len(tasks)) = tasks
        /\ UNCHANGED <<logger_known, logger_unknown, posts>>
        /\ returned' = Append(returned, None)]_vars

C9_Witness ==
    /\ Len(returned) = 2
    /\ \E t, u \in TaskIds :
        /\ ~SenderAllowed(tasks[t].message) /\ tasks[t].pc = "done"
        /\ \E i \in PostsOf(u) : posts[i].result.state = "exception"

\* C10: a non-multipart text/plain message from an allowed sender to a single
\* recipient that matches a mapping key has, when its task has ended,
\* exactly one POST; the POST goes to the endpoint of that key, its content
\* is the decoded payload, and the known sink has one summary of the message.
C10_PlainToKnown ==
    \A t \in TaskIds :
        LET message == tasks[t].message
            r == Recipients(message)
            part == message.body.parts[1]
        IN  ( /\ SenderAllowed(message)
              /\ ~message.body.multipart
              /\ part.ctype = "text/plain"
              /\ DecodePart(part).ok
              /\ Len(r) = 1
              /\ Matches(r[1])
              /\ Ended(t) ) =>
                /\ Cardinality(PostsOf(t)) = 1
                /\ \A i \in PostsOf(t) :
                    /\ posts[i].endpoint = MappedEndpoint(r[1])
                    /\ posts[i].json.content = DecodePart(part).val
                /\ Cardinality(KnownSummaries(t)) = 1

(***************************************************************************)
(* Content, subject and payload                                            *)
(***************************************************************************)

\* The positions of the text/plain and text/html parts of a body, in the
\* original part order.
TextPositions(body) ==
    {i \in 1..Len(body.parts) :
        body.parts[i].ctype \in {"text/plain", "text/html"}}

\* The one summary line of task t, in whichever sink it stands.
SummaryLines(t) ==
    {logger_known[i] : i \in KnownSummaries(t)}
        \cup {logger_unknown[i] : i \in UnknownSummaries(t)}

\* C11: for a multipart message the extracted content is the decoded payload
\* of the first part, in the original part order, whose type is text/plain or
\* text/html; parts after it are ignored.  Wherever the content of such a
\* message shows (the task's content, the size of its summary line, the
\* content of its payloads) it is that part's text.
C11_FirstTextPartWins ==
    \A t \in TaskIds :
        LET body == tasks[t].message.body
            hits == TextPositions(body)
        IN  (body.multipart /\ hits # {} /\ SummaryLines(t) # {}) =>
                LET first == CHOOSE i \in hits : \A j \in hits : i <= j
                    expected == DecodePart(body.parts[first]).val
                IN  /\ tasks[t].content = expected
                    /\ \A e \in SummaryLines(t) : e.size = Len(expected)
                    /\ \A i \in PostsOf(t) : posts[i].json.content = expected

\* A text/html part "<e-acute>" before a text/plain part "h": the HTML text
\* was forwarded.
C11_Witness ==
    \E t \in TaskIds :
        /\ tasks[t].message.body = BodyAlternative
        /\ tasks[t].pc = "done"
        /\ tasks[t].content = <<60, 233, 62>>
        /\ \E i \in PostsOf(t) :
            posts[i].json.content = <<60, 233, 62>> /\ posts[i].result # Pending

\* X-MailFrom, the envelope sender of the transaction, is on the allow-list.
EnvelopeAllowed(message) == message.x_mailfrom \in ALLOWED_SENDERS

\* A message whose envelope sender and From header are both on the allow-list.
FromAllowedSender(message) == SenderAllowed(message) /\ EnvelopeAllowed(message)

\* C12: a message from an allowed sender that has no Subject header (and has
\* a To header and a body that decodes) is processed to the end with the
\* decoded subject "No subject": its task ends without an exception, it has
\* a summary line, and that line and every payload carry "No subject".
C12_NoSubjectPlaceholder ==
    \A t \in TaskIds :
        LET message == tasks[t].message
        IN  ( /\ FromAllowedSender(message)
              /\ message.subject.tag = "missing"
              /\ message.to.tag # "None"
              /\ ExtractContent(message).ok
              /\ Ended(t) ) =>
                /\ tasks[t].pc = "done"
                /\ SummaryLines(t) # {}
                /\ \A e \in SummaryLines(t) : e.subject = NoSubject
                /\ \A i \in PostsOf(t) : posts[i].json.subject = NoSubject

\* C13: a multipart message from an allowed sender with no text/plain and no
\* text/html part (and with a To header) is not an error: when its task has
\* ended it ended without an exception, it has exactly one summary line, of
\* size 0, and every matching recipient has a POST, each with empty content.
C13_NoTextPartIsEmpty ==
    \A t \in TaskIds :
        LET message == tasks[t].message
            r == Recipients(message)
        IN  ( /\ FromAllowedSender(message)
              /\ message.body.multipart
              /\ TextPositions(message.body) = {}
              /\ message.to.tag # "None"
              /\ Ended(t) ) =>
                /\ tasks[t].pc = "done"
                /\ tasks[t].content = <<>>
                /\ Cardinality(KnownSummaries(t)) + Cardinality(UnknownSummaries(t)) = 1
                /\ \A e \in SummaryLines(t) : e.size = 0
                /\ \A j \in MatchingPositions(message) :
                    \E i \in PostsOf(t) : posts[i].rcpt = j
                /\ \A i \in PostsOf(t) : posts[i].json.content = <<>>

\* C14: every POST issued for a recipient r carries a payload whose from is
\* r as it was received (not the sender, letter case kept), whose subject is
\* the decoded subject of the message and whose content is its extracted
\* content, and it is sent to the endpoint the mapping has for r.
C14_PayloadFields ==
    \A i \in 1..Len(posts) :
        LET message == tasks[posts[i].task].message
            r == Recipients(message)[posts[i].rcpt]
        IN  /\ posts[i].json.from = r
            /\ posts[i].json.subject = DecodedSubject(message).val
            /\ posts[i].json.content = ExtractContent(message).val
            /\ Matches(r)
            /\ posts[i].endpoint = MappedEndpoint(r)

\* A POST for the recipient K@X of a message with an encoded subject and the
\* body "h e-acute": from keeps the capitals, the endpoint is the one of k@x.
C14_Witness ==
    \E i \in 1..Len(posts) :
        /\ posts[i].json =
            [from |-> AddrKUpper, subject |-> <<195, 169, 233, 104>>,
             content |-> <<104, 233>>]
        /\ posts[i].endpoint = "https://e1"
        /\ tasks[posts[i].task].message.from = AddrAllowed

(***************************************************************************)
(* Ordering and interleaving                                               *)
(***************************************************************************)

\* The outcome lines (line 164 or 166) task t has written.
OutcomeLines(t) ==
    {i \in KnownOf(t) : logger_known[i].kind \in {"forwarded", "error"}}
InFlight(t) == {i \in PostsOf(t) : posts[i].result = Pending}

\* C15: within one task the events are totally ordered.  A task with a POST
\* has its known-sink summary, written before any of its outcome lines; its
\* POSTs were started in the order of the recipient sequence; a POST was
\* started only when every earlier one of the task had completed and had its
\* outcome line, so that the task has at most one POST in flight and one
\* outcome line for each POST but the one it is waiting for.
C15_OnePostAtATime ==
    \A t \in TaskIds :
        /\ PostsOf(t) # {} =>
            /\ KnownSummaries(t) # {}
            /\ \A s \in KnownSummaries(t) : \A o \in OutcomeLines(t) : s < o
        /\ \A i, j \in PostsOf(t) :
            i < j => posts[i].rcpt < posts[j].rcpt /\ posts[i].result # Pending
        /\ Cardinality(InFlight(t)) <= 1
        /\ InFlight(t) # {} => tasks[t].pc = "awaiting"
        /\ Cardinality(OutcomeLines(t)) =
                Cardinality(PostsOf(t)) - (IF tasks[t].pc = "awaiting" THEN 1 ELSE 0)

\* A task with two matching recipients whose first POST has completed and
\* been logged and whose second POST is in flight.
C15_Witness ==
    \E t \in TaskIds :
        /\ Cardinality(PostsOf(t)) = 2
        /\ Cardinality(InFlight(t)) = 1
        /\ Cardinality(OutcomeLines(t)) = 1
        /\ Cardinality(MatchingPositions(tasks[t].message)) = 2

\* Task a is suspended on a POST that has not completed.
Stalled(a) ==
    tasks[a].pc = "awaiting" /\ posts[tasks[a].call].result = Pending

\* C16: the tasks of separate messages do not block each other.  While the
\* task of message a is suspended on a POST in flight, the task of another
\* message b can take its next step whatever it is: start (sender check,
\* decoding, classification, summary, first POST) when it is next in the
\* ready queue, have the POST it waits for complete with any outcome, and
\* resume after a completed POST.
C16_TasksDoNotBlock ==
    \A a, b \in TaskIds :
        (a # b /\ Stalled(a)) =>
            /\ ( /\ tasks[b].pc = "scheduled"
                 /\ \A u \in 1..(b - 1) : tasks[u].pc # "scheduled" )
                    => ENABLED StartTask(b)
            /\ Stalled(b) =>
                    \A outcome \in Outcomes : ENABLED PostCompletes(b, outcome)
            /\ (tasks[b].pc = "awaiting" /\ ~Stalled(b)) => ENABLED ResumeTask(b)

\* The first POST of message a is still in flight while message b, which
\* arrived after it, has been logged, forwarded with a completed POST and
\* has ended.
C16_Witness ==
    \E a, b \in TaskIds :
        /\ a < b
        /\ Stalled(a) /\ Cardinality(PostsOf(a)) = 1
        /\ tasks[b].pc = "done"
        /\ KnownSummaries(b) # {}
        /\ PostsOf(b) # {} /\ InFlight(b) = {}
        /\ \A i \in PostsOf(b) : i > tasks[a].call
        /\ OutcomeLines(b) # {}

(***************************************************************************)
(* Authorization and the envelope                                          *)
(***************************************************************************)

\* Task t was turned away at the sender check (line 118).
Rejected(t) == \E i \in UnknownOf(t) : logger_unknown[i].kind = "rejected"

\* C17: the authorization decision depends only on the envelope sender of
\* the transaction.  Two messages with the same envelope sender whose tasks
\* have run the check are both rejected or both let through, whatever their
\* From headers say, and a message whose envelope sender is not on the
\* allow-list is never forwarded.
C17_DecisionByEnvelopeFrom ==
    /\ \A t, u \in TaskIds :
        ( /\ tasks[t].pc # "scheduled" /\ tasks[u].pc # "scheduled"
          /\ tasks[t].message.x_mailfrom = tasks[u].message.x_mailfrom )
            => (Rejected(t) <=> Rejected(u))
    /\ \A t \in TaskIds :
        ~EnvelopeAllowed(tasks[t].message) => PostsOf(t) = {}

\* The lines of the two sinks that are not task t's.
LinesOfOthers(t) ==
    <<SelectSeq(logger_known, LAMBDA e : e.task # t),
      SelectSeq(logger_unknown, LAMBDA e : e.task # t)>>

\* C18: a task is suspended only at the await of a POST handed to the
\* executor.  The step in which a task leaves the ready queue takes it from
\* the sender check to its first such await, its end or the exception that
\* ends it: a message that passed the check and did not raise has its summary
\* line at the end of that very step, a task left waiting has its POST in
\* flight, and within the step no other task moves and no line of another
\* task is written.
C18_NoYieldBeforeSummary ==
    [][\A t \in TaskIds :
        (tasks[t].pc = "scheduled" /\ tasks'[t].pc # "scheduled") =>
            /\ tasks'[t].pc \in {"awaiting", "done", "raised"}
            /\ (SenderAllowed(tasks[t].message) /\ tasks'[t].pc # "raised")
                    => SummaryLines(t)' # {}
            /\ tasks'[t].pc = "awaiting" =>
                    /\ Len(posts') = Len(posts) + 1
                    /\ posts'[tasks'[t].call].task = t
                    /\ posts'[tasks'[t].call].result = Pending
            /\ \A u \in TaskIds : u # t => tasks'[u] = tasks[u]
            /\ LinesOfOthers(t)' = LinesOfOthers(t)]_vars

\* Message t passed the check and was logged, and is suspended on its POST;
\* only then was the later message u checked and logged, after t's summary.
C18_Witness ==
    \E t, u \in TaskIds :
        /\ t < u
        /\ Stalled(t)
        /\ \E i \in KnownSummaries(t) : \E j \in KnownSummaries(u) : i < j
        /\ \A i \in OutcomeLines(t) : \A j \in KnownSummaries(u) : j < i

(***************************************************************************)
(* Termination                                                             *)
(***************************************************************************)

\* C19: when the loop schedules fairly and every POST handed to the executor
\* returns or raises, every task that was created ends, with no POST of its
\* own in flight, whatever its recipients and the outcomes of its POSTs.
\* There is no timeout and no cancellation: as long as its POST has no
\* result a task stays where it is, cannot resume, and starts no POST for
\* the recipients that remain.
C19_TasksTerminate ==
    /\ \A t \in 1..MaxTasks :
        (t \in TaskIds) ~> (t \in TaskIds /\ Ended(t) /\ InFlight(t) = {})
    /\ [](\A t \in TaskIds : Stalled(t) => ~ENABLED ResumeTask(t))
    /\ [][\A t \in TaskIds :
            (Stalled(t) /\ posts'[tasks[t].call].result = Pending) =>
                tasks'[t] = tasks[t] /\ PostsOf(t)' = PostsOf(t)]_vars

\* A task with two matching recipients has ended after one POST that got a
\* response and one that raised.
C19_Witness ==
    \E t \in TaskIds :
        /\ tasks[t].pc = "done"
        /\ Cardinality(PostsOf(t)) = 2
        /\ InFlight(t) = {}
        /\ \E i, j \in PostsOf(t) :
            posts[i].result.state = "response" /\ posts[j].result.state = "exception"

(***************************************************************************)
(* Size                                                                    *)
(***************************************************************************)

\* The number of bytes of a string in UTF-8 (code points below 2048).
RECURSIVE Utf8Size(_)
Utf8Size(s) ==
    IF s = <<>> THEN 0
    ELSE (IF s[1] < 128 THEN 1 ELSE 2) + Utf8Size(Tail(s))

\* C20: the size in the summary line of a message is the size in bytes of
\* its content, for every content, those with multi-byte characters
\* included.
C20_SizeInBytes ==
    \A t \in TaskIds :
        \A e \in SummaryLines(t) : e.size = Utf8Size(tasks[t].content)

====
